---- MODULE Spec2Model ----
(***************************************************************************)
(* Model of the Lua/APR multi threading module (src/src/thread.c).         *)
(*                                                                         *)
(* One supervisor (the parent Lua state, strictly sequential) spawns       *)
(* workers, each running thread_runner() on its own native thread.  The    *)
(* supervisor's operations and each runner are split into steps at the     *)
(* places where they touch the shared handle (status, output, refcount),   *)
(* so that every interleaving of those accesses is explored.               *)
(*                                                                         *)
(* The two APR primitives apr_thread_join() and apr_thread_detach() are    *)
(* external: their return status is an input of the model.  The only       *)
(* thing assumed of them is that apr_thread_join() reports APR_SUCCESS     *)
(* only once the native thread has exited (it is the blocking wait).       *)
(***************************************************************************)
EXTENDS Integers, Sequences, FiniteSets, TLC

\* ---------------------------------------------------------------- bounds
NumHandles == 2      \* handles the model has room for
MaxRet == 2          \* longest list of return values of a thread function
MaxJoins == 3        \* join() calls made on one handle
JoinsEach == 1       \* join() calls made on each handle when several run at once
MaxLdapCalls == 3    \* apr.ldap() and rebind_add() calls made by the process
NumLdapCallers == 2  \* threads of the process that use the LDAP binding
MaxVals == 2         \* strings in a table given as the value of an attribute
LdapCallers == 1 .. NumLdapCallers

Handles == 1..NumHandles
\* The specification Spec drives one handle; its steps interleave the
\* supervisor with that handle's runner.
Driven == {1}

\* ---------------------------------------------- thread_status_t, line 49
TS_INIT == 0
TS_RUNNING == 1
TS_DONE == 2
TS_ERROR == 3
TS_DETACH == 4
StatusValues == {TS_INIT, TS_RUNNING, TS_DONE, TS_ERROR, TS_DETACH}
\* the runner's local variable `status' before its first assignment
UNSET == -1

\* As status_names, with the names of TS_DONE and TS_ERROR exchanged.
status_names_exchanged == <<"init", "running", "error", "done", "detach">>

\* const char *status_names[], line 41
status_names == <<"init", "running", "done", "error", "detach">>

\* apr_status_t values the primitives can report
APR_SUCCESS == "APR_SUCCESS"
APR_EGENERAL == "APR_EGENERAL"
APR_ENOMEM == "APR_ENOMEM"
NORC == "none"

\* ----------------------------------------------------------- Lua values
\* A C string is a sequence of tokens; NULL is the empty sequence.
NULL == <<>>
Values == {"a", "b"}
RECURSIVE SeqsUpTo(_, _)
SeqsUpTo(S, n) ==
  IF n = 0 THEN {<<>>}
  ELSE LET shorter == SeqsUpTo(S, n - 1)
       IN shorter \cup {Append(s, v) : s \in {t \in shorter : Len(t) = n - 1}, v \in S}
Results == SeqsUpTo(Values, MaxRet)

\* What the thread function does when called: return vals, or raise msg.
Returning(vals) == [raises |-> FALSE, vals |-> vals, msg |-> NULL]
Raising(msg) == [raises |-> TRUE, vals |-> <<>>, msg |-> msg]
Behaviours == {Returning(r) : r \in Results} \cup {Raising(<<"boom">>)}

\* First argument of apr.thread(): a function object, the source text of a
\* chunk that compiles, or source text that does not compile.
Payloads ==
  {[kind |-> k, does |-> b] : k \in {"function", "source"}, b \in Behaviours}
    \cup {[kind |-> "badsource", does |-> Raising(<<"syntax error">>)]}
NoPayload == [kind |-> "none", does |-> Raising(NULL)]

\* lua_apr_serialize() renders the values as the text of a chunk that
\* returns them; lua_apr_unserialize() loads that chunk and calls it.
lua_apr_serialize(vals) == <<"return">> \o vals
lua_apr_unserialize(str) ==
  IF Len(str) > 0 /\ Head(str) = "return" THEN Tail(str) ELSE <<>>
\* The input buffer: the serialized function and arguments.
SerializeCall(p) == [chunk |-> "return", call |-> p]
UnserializeCall(buf) == IF buf.chunk = "return" THEN buf.call ELSE NoPayload
NoInput == [chunk |-> "", call |-> NoPayload]

\* error_handler(): a string message is passed through debug.traceback().
error_handler(msg) == msg \o <<"stack traceback:">>

\* package.{config,path,cpath} of the parent Lua state
ParentPackage == [config |-> <<"cfg">>, path |-> <<"path">>, cpath |-> <<"cpath">>]
NoPackage == [config |-> NULL, path |-> NULL, cpath |-> NULL]

\* What a join() call returns to Lua.
JoinValues(vals) == [first |-> "true", vals |-> vals, msg |-> NULL]
JoinFailure(msg) == [first |-> "false", vals |-> <<>>, msg |-> msg]
push_error_status(rc) == [first |-> "nil", vals |-> <<>>, msg |-> <<rc>>]
NoResult == [first |-> "none", vals |-> <<>>, msg |-> NULL]
\* line 224: apr.thread() returns the one thread object
ThreadObject == [first |-> "thread", vals |-> <<>>, msg |-> NULL]
\* what apr.thread() did: the APR call that failed (or "none"), the status
\* that call returned, and the values handed back to Lua
NoSpawn == [call |-> "none", rc |-> NORC, ret |-> NoResult]
\* line 321: detach() returns true
DetachTrue == [first |-> "true", vals |-> <<>>, msg |-> NULL]
\* what the last detach() did: the status apr_thread_detach() returned and
\* the values handed back to Lua
NoDetach == [rc |-> NORC, ret |-> NoResult]

\* ldap.c, line 101: `static apr_pool_t *ldap_pool = NULL', and the pool
\* that apr_pool_create() stores there
APR_POOL_NULL == "NULL"
LDAP_POOL == "pool"
\* the values of `secure' in lua_apr_ldap(), lines 675-696
APR_LDAP_NONE == "APR_LDAP_NONE"
APR_LDAP_SSL == "APR_LDAP_SSL"
APR_LDAP_STARTTLS == "APR_LDAP_STARTTLS"
\* A caller's call: its function, its position in it, the one-time
\* initialization it ran ("none", "ssl", "rebind") with the status of that
\* initialization, and what it returned to Lua ("object", "true",
\* "nil, error").
NoLdapCall == [op |-> "none", pc |-> "idle", ran |-> "none", rc |-> NORC, ret |-> "none"]
\* calls made; pools stored in ldap_pool; apr_ldap_ssl_init() and
\* apr_ldap_rebind_init() calls that succeeded
NoLdapHist == [calls |-> 0, pools |-> 0, ssl |-> 0, rebind |-> 0]

\* ldap.c, lines 385-403
LUA_APR_LDAP_MAX_ATTRS == 128
LUA_APR_LDAP_ARRAY_VALUES_SIZE == 2 * LUA_APR_LDAP_MAX_ATTRS
LUA_APR_LDAP_MAX_VALUES == LUA_APR_LDAP_ARRAY_VALUES_SIZE \div 2
\* attrs_data, lines 406-414: the number of elements of each array
attrs_data_size(array) ==
  CASE array = "attrs" -> LUA_APR_LDAP_MAX_ATTRS + 1
    [] array = "mods" -> LUA_APR_LDAP_MAX_ATTRS
    [] array = "values" -> LUA_APR_LDAP_ARRAY_VALUES_SIZE
    [] array = "bvals" -> LUA_APR_LDAP_MAX_VALUES
\* An attrs_data on the stack of lua_apr_ldap_add() or lua_apr_ldap_modify()
\* before A_init(): nothing in it has a value yet.  Of the arrays only attrs
\* is kept element by element ("?" not written, "mod" a pointer into mods,
\* "NULL"); of the others the model keeps the indexes written.
NoAttrs ==
  [ai |-> UNSET, vi |-> UNSET, bi |-> UNSET,
   attrs |-> [i \in 0 .. LUA_APR_LDAP_MAX_ATTRS |-> "?"]]
\* position of the operation ("idle", "building", "done", "raised"), the
\* string-keyed attributes it has been given, the message of the Lua error
\* it raised, and the arrays that were written outside their elements
NoAttrsHist == [pc |-> "idle", n |-> 0, err |-> "", oob |-> {}]

VARIABLES
  \* lua_apr_thread_object, lines 51-60
  status,      \* volatile thread_status_t status
  joined,      \* int joined
  output,      \* void *output
  input,       \* void *input
  package,     \* char *path, *cpath, *config
  refcount,    \* lua_apr_refobj header
  destroyed,   \* the reference count has dropped to zero
  \* the Lua side of the handle
  lref,        \* "none", "held" (reachable), "garbage" (unreachable), "finalized"
  \* the native thread
  nthread,     \* "none", "running", "exited"
  ndetached,   \* apr_thread_detach() has succeeded on it
  exitval,     \* status passed to apr_thread_exit()
  \* thread_runner()
  rpc,         \* position of the runner
  rstatus,     \* its local variable `status'
  rcollect,    \* result of object_collectable() in its thread_destroy()
  called,      \* "no", "returned", "raised": what lua_pcall() of the function did
  \* the supervisor
  sup,         \* the operation in progress
  \* history of the run
  spawnRet,    \* what apr.thread() returned for the handle
  njoin,       \* join() calls started
  lastJoin,    \* the last finished join(): did it wait, and what it returned
  joinSeen,    \* every result join() has returned
  joinWaits,   \* apr_thread_join() calls made by join()
  joinWaitsOK, \* ... that reported success
  waitDetached,\* who called apr_thread_join() on a detached thread
  outObs,      \* the status the supervisor had observed at each read of output
  lastWrite,   \* the runner's last write to thread->status
  uaf,         \* runner steps that used the handle after its destruction
  outFreed,    \* free() calls on a non-NULL output
  statusRet,   \* last string returned by status()
  detachRet,   \* last value returned by detach()
  detachedSince, \* detach() has succeeded since the last join() returned
  \* ldap.c, lines 101-102: the statics shared by every LDAP connection
  ldap_pool,          \* apr_pool_t *ldap_pool
  ldap_ssl_inited,    \* int ldap_ssl_inited
  ldap_rebind_inited, \* int ldap_rebind_inited
  ldapHist,           \* calls made, pools created, initializations that succeeded
  ldapCall,           \* each caller's apr.ldap() or rebind_add() call
  \* ldap.c, lines 406-414: the attrs_data of one add or modify operation
  attrs,              \* the counters ai, vi, bi and the end of the attrs array
  attrsHist           \* what the operation has done to the structure

hvars == <<status, joined, output, input, package, refcount, destroyed>>
nvars == <<nthread, ndetached, exitval>>
rvars == <<rpc, rstatus, rcollect, called>>
gvars == <<spawnRet, njoin, lastJoin, joinSeen, joinWaits, joinWaitsOK,
           waitDetached, outObs, lastWrite, uaf, outFreed, statusRet, detachRet,
           detachedSince>>
tvars == <<hvars, lref, nvars, rvars, sup, gvars>>
lvars == <<ldap_pool, ldap_ssl_inited, ldap_rebind_inited, ldapHist, ldapCall, attrs, attrsHist>>
vars == <<tvars, lvars>>

Idle == [op |-> "idle", h |-> 0, pc |-> "idle", rc |-> NORC,
         obsJoined |-> FALSE, obsStatus |-> UNSET, collectable |-> FALSE]
NoJoin == [waited |-> FALSE, res |-> NoResult]

Init ==
  /\ status = [h \in Handles |-> TS_INIT]
  /\ joined = [h \in Handles |-> FALSE]
  /\ output = [h \in Handles |-> NULL]
  /\ input = [h \in Handles |-> NoInput]
  /\ package = [h \in Handles |-> NoPackage]
  /\ refcount = [h \in Handles |-> 0]
  /\ destroyed = [h \in Handles |-> FALSE]
  /\ lref = [h \in Handles |-> "none"]
  /\ nthread = [h \in Handles |-> "none"]
  /\ ndetached = [h \in Handles |-> FALSE]
  /\ exitval = [h \in Handles |-> NORC]
  /\ rpc = [h \in Handles |-> "none"]
  /\ rstatus = [h \in Handles |-> UNSET]
  /\ rcollect = [h \in Handles |-> FALSE]
  /\ called = [h \in Handles |-> "no"]
  /\ sup = Idle
  /\ spawnRet = [h \in Handles |-> NoSpawn]
  /\ njoin = [h \in Handles |-> 0]
  /\ lastJoin = [h \in Handles |-> NoJoin]
  /\ joinSeen = [h \in Handles |-> {}]
  /\ joinWaits = [h \in Handles |-> 0]
  /\ joinWaitsOK = [h \in Handles |-> 0]
  /\ waitDetached = [h \in Handles |-> {}]
  /\ outObs = [h \in Handles |-> {}]
  /\ lastWrite = [h \in Handles |-> UNSET]
  /\ uaf = [h \in Handles |-> {}]
  /\ outFreed = [h \in Handles |-> 0]
  /\ statusRet = [h \in Handles |-> "none"]
  /\ detachRet = [h \in Handles |-> NoDetach]
  /\ detachedSince = [h \in Handles |-> FALSE]
  /\ ldap_pool = APR_POOL_NULL
  /\ ldap_ssl_inited = 0
  /\ ldap_rebind_inited = 0
  /\ ldapHist = NoLdapHist
  /\ ldapCall = [c \in LdapCallers |-> NoLdapCall]
  /\ attrs = NoAttrs
  /\ attrsHist = NoAttrsHist

\* ------------------------------------------- reference counted wrapper
\* new_object() hands out the object with one reference, the creator's.
new_object_refcount == 1
object_incref(h) == [refcount EXCEPT ![h] = @ + 1]
object_collectable(h) == refcount[h] = 1
release_object(h) == [refcount EXCEPT ![h] = @ - 1]
\* the object is destroyed once its last reference is released
destroyed_by_release(h) == [destroyed EXCEPT ![h] = @ \/ refcount[h] - 1 <= 0]

\* thread_destroy(), lines 88-94, second half: free(thread->output) when
\* the earlier test said so, then release_object().
thread_destroy_release(h, collectable) ==
  /\ outFreed' = [outFreed EXCEPT ![h] = IF collectable /\ output[h] # NULL THEN @ + 1 ELSE @]
  /\ refcount' = release_object(h)
  /\ destroyed' = destroyed_by_release(h)

\* A runner step that touches the handle after it was destroyed.
Touch(h, step) == uaf' = [uaf EXCEPT ![h] = IF destroyed[h] THEN @ \cup {step} ELSE @]

\* ------------------------------------------------------ thread_runner()
\* As runner_thread, with every native thread started on the first handle.
runner_thread_first(h) == 1

\* lines 98 and 218-219: the `thread' argument of the runner of handle h is
\* the object that apr.thread() passed to apr_thread_create().
runner_thread(h) == h

\* line 106: the child takes its reference.
runner_incref(h) ==
  /\ rpc[h] = "start"
  /\ refcount' = object_incref(runner_thread(h))
  /\ Touch(h, "incref")
  /\ rpc' = [rpc EXCEPT ![h] = "newstate"]
  /\ UNCHANGED <<status, joined, output, input, package, destroyed, lref, nvars,
                 rstatus, rcollect, called, sup, spawnRet, njoin, lastJoin, joinSeen,
                 joinWaits, joinWaitsOK, waitDetached, outObs, lastWrite, outFreed,
                 statusRet, detachRet, detachedSince>>
  /\ UNCHANGED lvars

\* As runner_setup_status, but a failed luaL_newstate() leaves the local
\* `status' at TS_INIT.
runner_setup_status_unset(ok, p) ==
  IF ok /\ p.kind = "badsource" THEN TS_ERROR ELSE TS_INIT

\* The local `status' and thread->output after lines 108-142, for a Lua
\* state that could (ok) or could not be created.
runner_setup_status(ok, p) ==
  IF ~ok THEN TS_ERROR
  ELSE IF p.kind = "badsource" THEN TS_ERROR
  ELSE TS_INIT
runner_setup_output(ok, p, old) ==
  IF ~ok THEN <<"Failed to create Lua state">>
  ELSE IF p.kind = "badsource" THEN p.does.msg
  ELSE old

\* lines 108-142: luaL_newstate(), package.*, unserialize, compile.
runner_setup(h) ==
  /\ rpc[h] = "newstate"
  /\ \E ok \in BOOLEAN :
       LET p == UnserializeCall(input[runner_thread(h)]) IN
       /\ rstatus' = [rstatus EXCEPT ![h] = runner_setup_status(ok, p)]
       /\ output' = [output EXCEPT ![runner_thread(h)] = runner_setup_output(ok, p, @)]
       /\ rpc' = [rpc EXCEPT ![h] = IF ok THEN "check" ELSE "final"]
  /\ Touch(h, "setup")
  /\ UNCHANGED <<status, joined, input, package, refcount, destroyed, lref, nvars,
                 rcollect, called, sup, spawnRet, njoin, lastJoin, joinSeen,
                 joinWaits, joinWaitsOK, waitDetached, outObs, lastWrite, outFreed,
                 statusRet, detachRet, detachedSince>>
  /\ UNCHANGED lvars

\* As runner_running_status, with the status that line 157 writes for a
\* function that returned.
runner_running_status_final == TS_DONE

\* line 144: the status written before lua_pcall() is entered.
runner_running_status == TS_RUNNING

\* As runner_may_call, without the test of the local `status'.
runner_may_call_always(st) == TRUE

\* line 143: `if (status != TS_ERROR)'.
runner_may_call(st) == st # TS_ERROR

\* As runner_running, with the assignment of line 144 moved in front of
\* luaL_newstate().
runner_running_before_setup(h) ==
  /\ rpc[h] = "newstate" /\ status[h] # runner_running_status
  /\ status' = [status EXCEPT ![runner_thread(h)] = runner_running_status]
  /\ lastWrite' = [lastWrite EXCEPT ![h] = runner_running_status]
  /\ Touch(h, "running")
  /\ UNCHANGED <<joined, output, input, package, refcount, destroyed, lref, nvars,
                 rvars, sup, spawnRet, njoin, lastJoin, joinSeen,
                 joinWaits, joinWaitsOK, waitDetached, outObs, outFreed,
                 statusRet, detachRet, detachedSince>>
  /\ UNCHANGED lvars

\* lines 143-144: thread->status = TS_RUNNING unless setup failed.
runner_running(h) ==
  /\ rpc[h] = "check"
  /\ IF runner_may_call(rstatus[h])
       THEN /\ status' = [status EXCEPT ![runner_thread(h)] = runner_running_status]
            /\ lastWrite' = [lastWrite EXCEPT ![h] = runner_running_status]
            /\ Touch(h, "running")
            /\ rpc' = [rpc EXCEPT ![h] = "pcall"]
       ELSE /\ rpc' = [rpc EXCEPT ![h] = "final"]
            /\ UNCHANGED <<status, lastWrite, uaf>>
  /\ UNCHANGED <<joined, output, input, package, refcount, destroyed, lref, nvars,
                 rstatus, rcollect, called, sup, spawnRet, njoin, lastJoin, joinSeen,
                 joinWaits, joinWaitsOK, waitDetached, outObs, outFreed,
                 statusRet, detachRet, detachedSince>>
  /\ UNCHANGED lvars

\* As runner_pcall_status, with the two branches of the lua_pcall() test
\* exchanged.
runner_pcall_status_swapped(does) == IF does.raises THEN TS_DONE ELSE TS_ERROR

\* lines 145-152: the local `status' and thread->output after lua_pcall().
runner_pcall_status(does) == IF does.raises THEN TS_ERROR ELSE TS_DONE
runner_pcall_output(does) ==
  IF does.raises THEN error_handler(does.msg) ELSE lua_apr_serialize(does.vals)

runner_pcall(h) ==
  /\ rpc[h] = "pcall"
  /\ LET does == UnserializeCall(input[runner_thread(h)]).does IN
       /\ output' = [output EXCEPT ![runner_thread(h)] = runner_pcall_output(does)]
       /\ rstatus' = [rstatus EXCEPT ![h] = runner_pcall_status(does)]
       /\ called' = [called EXCEPT ![h] = IF does.raises THEN "raised" ELSE "returned"]
  /\ Touch(h, "pcall")
  /\ rpc' = [rpc EXCEPT ![h] = "final"]
  /\ UNCHANGED <<status, joined, input, package, refcount, destroyed, lref, nvars,
                 rcollect, sup, spawnRet, njoin, lastJoin, joinSeen,
                 joinWaits, joinWaitsOK, waitDetached, outObs, lastWrite, outFreed,
                 statusRet, detachRet, detachedSince>>
  /\ UNCHANGED lvars

\* As runner_final_status, with the handle put back to its first status.
runner_final_status_reset(h) == TS_INIT

\* line 157: thread->status = status.
runner_final_status(h) == rstatus[h]

runner_final(h) ==
  /\ rpc[h] = "final"
  /\ status' = [status EXCEPT ![runner_thread(h)] = runner_final_status(h)]
  /\ lastWrite' = [lastWrite EXCEPT ![h] = runner_final_status(h)]
  /\ Touch(h, "final")
  /\ rpc' = [rpc EXCEPT ![h] = "destroy"]
  /\ UNCHANGED <<joined, output, input, package, refcount, destroyed, lref, nvars,
                 rstatus, rcollect, called, sup, spawnRet, njoin, lastJoin, joinSeen,
                 joinWaits, joinWaitsOK, waitDetached, outObs, outFreed,
                 statusRet, detachRet, detachedSince>>
  /\ UNCHANGED lvars

\* line 158, thread_destroy() line 90: the test.
runner_destroy_test(h) ==
  /\ rpc[h] = "destroy"
  /\ rcollect' = [rcollect EXCEPT ![h] = object_collectable(runner_thread(h))]
  /\ Touch(h, "collectable")
  /\ rpc' = [rpc EXCEPT ![h] = "release"]
  /\ UNCHANGED <<hvars, lref, nvars, rstatus, called, sup, spawnRet, njoin, lastJoin,
                 joinSeen, joinWaits, joinWaitsOK, waitDetached, outObs, lastWrite,
                 outFreed, statusRet, detachRet, detachedSince>>
  /\ UNCHANGED lvars

\* line 158, thread_destroy() lines 91-93: free and release.
runner_destroy_release(h) ==
  /\ rpc[h] = "release"
  /\ thread_destroy_release(runner_thread(h), rcollect[h])
  /\ Touch(h, "release")
  /\ rpc' = [rpc EXCEPT ![h] = "exit"]
  /\ UNCHANGED <<status, joined, output, input, package, lref, nvars,
                 rstatus, rcollect, called, sup, spawnRet, njoin, lastJoin, joinSeen,
                 joinWaits, joinWaitsOK, waitDetached, outObs, lastWrite,
                 statusRet, detachRet, detachedSince>>
  /\ UNCHANGED lvars

\* As runner_exit, for a native thread that exits only while a join() or
\* the finalizer is waiting for it.
runner_exit_when_awaited(h) ==
  /\ rpc[h] = "exit"
  /\ sup.op \in {"join", "gc"} /\ sup.h = h
  /\ nthread' = [nthread EXCEPT ![h] = "exited"]
  /\ exitval' = [exitval EXCEPT ![h] = APR_SUCCESS]
  /\ rpc' = [rpc EXCEPT ![h] = "exited"]
  /\ UNCHANGED <<hvars, lref, ndetached, rstatus, rcollect, called, sup, gvars>>
  /\ UNCHANGED lvars

\* line 159: apr_thread_exit(handle, APR_SUCCESS).
runner_exit(h) ==
  /\ rpc[h] = "exit"
  /\ nthread' = [nthread EXCEPT ![h] = "exited"]
  /\ exitval' = [exitval EXCEPT ![h] = APR_SUCCESS]
  /\ rpc' = [rpc EXCEPT ![h] = "exited"]
  /\ UNCHANGED <<hvars, lref, ndetached, rstatus, rcollect, called, sup, gvars>>
  /\ UNCHANGED lvars

thread_runner(h) ==
  \/ runner_incref(h)
  \/ runner_setup(h)
  \/ runner_running(h)
  \/ runner_pcall(h)
  \/ runner_final(h)
  \/ runner_destroy_test(h)
  \/ runner_destroy_release(h)
  \/ runner_exit(h)

\* ------------------------------------------------------------ apr.thread()
SpawnFailures == {"none", "pool", "attr", "create"}
\* the status a failing APR call hands to lines 194, 217, 220
SpawnErrors == {APR_ENOMEM, APR_EGENERAL}

\* As lua_apr_thread_fail_destroy, without the release of the new object.
lua_apr_thread_fail_leak(count) == count

\* lines 226-228: on the failure path thread_destroy() releases the
\* reference that new_object() gave to the creator.
lua_apr_thread_fail_destroy(count) == count - 1

\* lines 176-221 and the failure path 226-229: the object is created, the
\* input and package strings are copied into the new pool, and the native
\* thread is started.  `fail' names the APR call that failed.
\* As lua_apr_thread_input, without the copy of line 198.
lua_apr_thread_input_missing(fail, p, old) == old

\* line 198: the serialized function is copied into the pool of the new
\* object, once apr_pool_create() has succeeded.
lua_apr_thread_input(fail, p, old) == IF fail = "pool" THEN old ELSE SerializeCall(p)

lua_apr_thread_with(h, payloads, failures) ==
  /\ sup.op = "idle"
  /\ lref[h] = "none"
  /\ \E p \in payloads, fail \in failures :
     \E rc \in IF fail = "none" THEN {APR_SUCCESS} ELSE SpawnErrors :
       /\ status' = [status EXCEPT ![h] = TS_INIT]
       /\ input' = [input EXCEPT ![h] = lua_apr_thread_input(fail, p, @)]
       /\ package' = [package EXCEPT ![h] = IF fail = "pool" THEN @ ELSE ParentPackage]
       /\ IF fail = "none"
            THEN /\ refcount' = [refcount EXCEPT ![h] = new_object_refcount]
                 /\ nthread' = [nthread EXCEPT ![h] = "running"]
                 /\ rpc' = [rpc EXCEPT ![h] = "start"]
                 /\ sup' = [Idle EXCEPT !.op = "spawn", !.h = h, !.pc = "return"]
                 /\ UNCHANGED <<destroyed, lref, spawnRet>>
            ELSE \* goto fail: thread_destroy(thread); push_error_status()
                 /\ refcount' = [refcount EXCEPT ![h] =
                                   lua_apr_thread_fail_destroy(new_object_refcount)]
                 /\ destroyed' = [destroyed EXCEPT ![h] =
                                   lua_apr_thread_fail_destroy(new_object_refcount) <= 0]
                 /\ lref' = [lref EXCEPT ![h] = "garbage"]
                 /\ spawnRet' = [spawnRet EXCEPT ![h] =
                        [call |-> fail, rc |-> rc, ret |-> push_error_status(rc)]]
                 /\ UNCHANGED <<nthread, rpc, sup>>
  /\ UNCHANGED <<joined, output, ndetached, exitval, rstatus, rcollect, called,
                 njoin, lastJoin, joinSeen, joinWaits, joinWaitsOK, waitDetached,
                 outObs, lastWrite, uaf, outFreed, statusRet, detachRet, detachedSince>>
  /\ UNCHANGED lvars

lua_apr_thread(h) == lua_apr_thread_with(h, Payloads, SpawnFailures)

\* line 224: return the thread object.
lua_apr_thread_return(h) ==
  /\ sup.op = "spawn" /\ sup.h = h
  /\ lref' = [lref EXCEPT ![h] = "held"]
  /\ spawnRet' = [spawnRet EXCEPT ![h] = [NoSpawn EXCEPT !.ret = ThreadObject]]
  /\ sup' = Idle
  /\ UNCHANGED <<hvars, nvars, rvars, njoin, lastJoin, joinSeen, joinWaits,
                 joinWaitsOK, waitDetached, outObs, lastWrite, uaf, outFreed,
                 statusRet, detachRet, detachedSince>>
  /\ UNCHANGED lvars

\* ----------------------------------------------------------- thread:join()
\* As thread_join_must_wait, without the test of joined.
thread_join_must_wait_always(h) == TRUE

\* line 263: does this call have to wait?
thread_join_must_wait(h) == ~joined[h]

\* lines 259-264: up to the call of apr_thread_join().
thread_join_call(h) ==
  /\ sup.op = "idle"
  /\ lref[h] = "held"
  /\ njoin[h] < MaxJoins
  /\ njoin' = [njoin EXCEPT ![h] = @ + 1]
  /\ IF thread_join_must_wait(h)
       THEN /\ joinWaits' = [joinWaits EXCEPT ![h] = @ + 1]
            /\ waitDetached' = [waitDetached EXCEPT ![h] =
                                  IF ndetached[h] THEN @ \cup {"join"} ELSE @]
            /\ sup' = [Idle EXCEPT !.op = "join", !.h = h, !.pc = "wait"]
       ELSE /\ sup' = [Idle EXCEPT !.op = "join", !.h = h, !.pc = "push"]
            /\ UNCHANGED <<joinWaits, waitDetached>>
  /\ UNCHANGED <<hvars, lref, nvars, rvars, spawnRet, lastJoin, joinSeen,
                 joinWaitsOK, outObs, lastWrite, uaf, outFreed, statusRet, detachRet, detachedSince>>
  /\ UNCHANGED lvars

\* apr_thread_join() can report success once the native thread has exited.
apr_thread_join_returns(h, rc) ==
  rc = APR_SUCCESS => nthread[h] = "exited"

\* As thread_join_joined, without the assignment of line 267.
thread_join_joined_forgotten(rc, old) == old

\* lines 265-267: the joined flag after apr_thread_join() returned rc.
thread_join_joined(rc, old) == IF rc = APR_SUCCESS THEN TRUE ELSE old

\* lines 264-267: apr_thread_join() returns.
\* As thread_join_wait_failed, with the status of apr_thread_join()
\* never tested.
thread_join_wait_unchecked(rc) == FALSE

\* line 265: `if (status != APR_SUCCESS)'.
thread_join_wait_failed(rc) == rc # APR_SUCCESS

thread_join_wait(h) ==
  /\ sup.op = "join" /\ sup.h = h /\ sup.pc = "wait"
  /\ \E rc \in {APR_SUCCESS, APR_EGENERAL} :
       /\ apr_thread_join_returns(h, rc)
       /\ joined' = [joined EXCEPT ![h] = thread_join_joined(rc, @)]
       /\ IF ~thread_join_wait_failed(rc)
            THEN /\ joinWaitsOK' = [joinWaitsOK EXCEPT ![h] = @ + 1]
                 /\ sup' = [sup EXCEPT !.pc = "push", !.rc = rc]
                 /\ UNCHANGED <<lastJoin, joinSeen, detachedSince>>
            ELSE /\ lastJoin' = [lastJoin EXCEPT ![h] =
                                   [waited |-> FALSE, res |-> push_error_status(rc)]]
                 /\ joinSeen' = [joinSeen EXCEPT ![h] = @ \cup {push_error_status(rc)}]
                 /\ detachedSince' = [detachedSince EXCEPT ![h] = FALSE]
                 /\ sup' = Idle
                 /\ UNCHANGED joinWaitsOK
  /\ UNCHANGED <<status, output, input, package, refcount, destroyed, lref, nvars,
                 rvars, spawnRet, njoin, joinWaits, waitDetached, outObs, lastWrite,
                 uaf, outFreed, statusRet, detachRet>>
  /\ UNCHANGED lvars

\* lines 271-278: the values pushed for a status and an output.
thread_join_result(st, out) ==
  IF st = TS_DONE THEN JoinValues(lua_apr_unserialize(out)) ELSE JoinFailure(out)

\* lines 270-280: push the status and any results.
thread_join_push(h) ==
  /\ sup.op = "join" /\ sup.h = h /\ sup.pc = "push"
  /\ LET res == thread_join_result(status[h], output[h]) IN
       /\ lastJoin' = [lastJoin EXCEPT ![h] =
                         [waited |-> sup.rc = APR_SUCCESS, res |-> res]]
       /\ joinSeen' = [joinSeen EXCEPT ![h] = @ \cup {res}]
  /\ outObs' = [outObs EXCEPT ![h] = @ \cup {status[h]}]
  /\ detachedSince' = [detachedSince EXCEPT ![h] = FALSE]
  /\ sup' = Idle
  /\ UNCHANGED <<hvars, lref, nvars, rvars, spawnRet, njoin, joinWaits, joinWaitsOK,
                 waitDetached, lastWrite, uaf, outFreed, statusRet, detachRet>>
  /\ UNCHANGED lvars

\* --------------------------------------------------------- thread:status()
\* lines 292-300.
thread_status(h) ==
  /\ sup.op = "idle"
  /\ lref[h] = "held"
  /\ statusRet' = [statusRet EXCEPT ![h] = status_names[status[h] + 1]]
  /\ UNCHANGED <<hvars, lref, nvars, rvars, sup, spawnRet, njoin, lastJoin, joinSeen,
                 joinWaits, joinWaitsOK, waitDetached, outObs, lastWrite, uaf,
                 outFreed, detachRet, detachedSince>>
  /\ UNCHANGED lvars

\* --------------------------------------------------------- thread:detach()
\* lines 310-322.
\* As thread_detach_status, without the test of the status returned by
\* apr_thread_detach().
thread_detach_status_always(rc, old) == TS_DETACH

\* lines 316-319: thread->status after apr_thread_detach() returned rc.
thread_detach_status(rc, old) == IF rc = APR_SUCCESS THEN TS_DETACH ELSE old
\* lines 317-321: the values handed back to Lua.
thread_detach_result(rc) == IF rc = APR_SUCCESS THEN DetachTrue ELSE push_error_status(rc)

thread_detach(h) ==
  /\ sup.op = "idle"
  /\ lref[h] = "held"
  /\ \E rc \in {APR_SUCCESS, APR_EGENERAL} :
       /\ status' = [status EXCEPT ![h] = thread_detach_status(rc, @)]
       /\ detachRet' = [detachRet EXCEPT ![h] =
             [rc |-> rc, ret |-> thread_detach_result(rc)]]
       /\ IF rc = APR_SUCCESS
            THEN /\ ndetached' = [ndetached EXCEPT ![h] = TRUE]
                 /\ detachedSince' = [detachedSince EXCEPT ![h] = TRUE]
            ELSE UNCHANGED <<ndetached, detachedSince>>
  /\ UNCHANGED <<joined, output, input, package, refcount, destroyed, lref, nthread,
                 exitval, rvars, sup, spawnRet, njoin, lastJoin, joinSeen, joinWaits,
                 joinWaitsOK, waitDetached, outObs, lastWrite, uaf, outFreed, statusRet>>
  /\ UNCHANGED lvars

\* ----------------------------------------------------------- thread:__gc()
\* As thread_gc_must_join, with the TS_DETACH test inverted.
thread_gc_must_join_inverted(h) == ~joined[h] /\ status[h] = TS_DETACH

\* lines 343-345: does the finalizer call apr_thread_join()?
thread_gc_must_join(h) == ~joined[h] /\ status[h] # TS_DETACH

\* lines 342-348: up to the call of apr_thread_join(), or past the whole
\* `if' when there is nothing to join.
thread_gc_enter(h) ==
  /\ sup.op = "idle"
  /\ lref[h] \in {"held", "garbage"}
  /\ IF thread_gc_must_join(h)
       THEN /\ waitDetached' = [waitDetached EXCEPT ![h] =
                                  IF ndetached[h] THEN @ \cup {"gc"} ELSE @]
            /\ sup' = [Idle EXCEPT !.op = "gc", !.h = h, !.pc = "wait",
                                   !.obsJoined = joined[h], !.obsStatus = status[h]]
            /\ UNCHANGED outObs
       ELSE /\ sup' = [Idle EXCEPT !.op = "gc", !.h = h, !.pc = "destroy",
                                   !.obsJoined = joined[h],
                                   !.obsStatus = IF joined[h] THEN UNSET ELSE status[h]]
            \* line 346 prints thread->output
            /\ outObs' = [outObs EXCEPT ![h] = IF joined[h] THEN @ ELSE @ \cup {status[h]}]
            /\ UNCHANGED waitDetached
  /\ UNCHANGED <<hvars, lref, nvars, rvars, spawnRet, njoin, lastJoin, joinSeen,
                 joinWaits, joinWaitsOK, lastWrite, uaf, outFreed, statusRet, detachRet, detachedSince>>
  /\ UNCHANGED lvars

\* lines 348-355: apr_thread_join() returns to the finalizer.
thread_gc_wait(h) ==
  /\ sup.op = "gc" /\ sup.h = h /\ sup.pc = "wait"
  /\ \E rc \in {APR_SUCCESS, APR_EGENERAL} :
       /\ apr_thread_join_returns(h, rc)
       /\ sup' = [sup EXCEPT !.pc = "destroy", !.rc = rc]
       \* line 354 prints thread->output
       /\ outObs' = [outObs EXCEPT ![h] =
                       IF rc = APR_SUCCESS /\ status[h] = TS_ERROR
                         THEN @ \cup {status[h]} ELSE @]
  /\ UNCHANGED <<hvars, lref, nvars, rvars, spawnRet, njoin, lastJoin, joinSeen,
                 joinWaits, joinWaitsOK, waitDetached, lastWrite, uaf, outFreed,
                 statusRet, detachRet, detachedSince>>
  /\ UNCHANGED lvars

\* line 358, thread_destroy() line 90: the test.
thread_gc_destroy_test(h) ==
  /\ sup.op = "gc" /\ sup.h = h /\ sup.pc = "destroy"
  /\ sup' = [sup EXCEPT !.pc = "release", !.collectable = object_collectable(h)]
  /\ UNCHANGED <<hvars, lref, nvars, rvars, gvars>>
  /\ UNCHANGED lvars

\* line 358, thread_destroy() lines 91-93: free and release.
thread_gc_destroy_release(h) ==
  /\ sup.op = "gc" /\ sup.h = h /\ sup.pc = "release"
  /\ thread_destroy_release(h, sup.collectable)
  /\ lref' = [lref EXCEPT ![h] = "finalized"]
  /\ sup' = Idle
  /\ UNCHANGED <<status, joined, output, input, package, nvars, rvars, spawnRet,
                 njoin, lastJoin, joinSeen, joinWaits, joinWaitsOK, waitDetached,
                 outObs, lastWrite, uaf, statusRet, detachRet, detachedSince>>
  /\ UNCHANGED lvars

thread_join(h) == thread_join_call(h) \/ thread_join_wait(h) \/ thread_join_push(h)
thread_gc(h) ==
  \/ thread_gc_enter(h)
  \/ thread_gc_wait(h)
  \/ thread_gc_destroy_test(h)
  \/ thread_gc_destroy_release(h)

NextOf(S) ==
  \E h \in S :
    \/ lua_apr_thread(h)
    \/ lua_apr_thread_return(h)
    \/ thread_join(h)
    \/ thread_status(h)
    \/ thread_detach(h)
    \/ thread_gc(h)
    \/ thread_runner(h)

Next == NextOf(Driven)
Spec == Init /\ [][Next]_vars

\* Several workers at once: every handle is spawned with a function that
\* returns the index of its handle, the runners interleave freely, and the
\* handles are joined in any order, each JoinsEach times at most.
IndexPayload(h) == [kind |-> "function", does |-> Returning(<<ToString(h)>>)]
IsolationNext ==
  \E h \in Handles :
    \/ lua_apr_thread_with(h, {IndexPayload(h)}, {"none"})
    \/ lua_apr_thread_return(h)
    \/ (njoin[h] < JoinsEach /\ thread_join_call(h))
    \/ thread_join_wait(h)
    \/ thread_join_push(h)
    \/ thread_runner(h)
IsolationSpec == Init /\ [][IsolationNext]_vars

\* The operating system schedules every native thread: a runner that can
\* take a step eventually takes one.  The calls of the supervisor are
\* made or not made as the Lua program pleases.
Fairness == \A h \in Driven : WF_vars(thread_runner(h))
\* Whether and when a runner finishes does not depend on the values its
\* function returns: one function that returns, one that raises and one
\* chunk that does not compile cover the paths of thread_runner().
TerminatingPayloads ==
  {[kind |-> "function", does |-> Returning(<<>>)],
   [kind |-> "function", does |-> Raising(<<"boom">>)],
   [kind |-> "badsource", does |-> Raising(<<"syntax error">>)]}
FairNext ==
  \E h \in Driven :
    \/ lua_apr_thread_with(h, TerminatingPayloads, SpawnFailures)
    \/ lua_apr_thread_return(h)
    \/ thread_join(h)
    \/ thread_status(h)
    \/ thread_detach(h)
    \/ thread_gc(h)
    \/ thread_runner(h)
FairSpec == Init /\ [][FairNext]_vars /\ Fairness

TypeOK ==
  /\ \A h \in Handles : status[h] \in StatusValues
  /\ \A h \in Handles : rpc[h] \in {"none", "start", "newstate", "check", "pcall",
                                     "final", "destroy", "release", "exit", "exited"}

\* ================================================================ ldap.c
\* The statics of lines 101-102 belong to the process: every thread that
\* loads the binding (the main one and the workers of thread.c) runs the
\* functions below on the same three variables, and nothing in ldap.c
\* locks them.  Each caller therefore has a position of its own, and a
\* step is one read or one write of a static.

\* lines 706 and 1119: `!ldap_ssl_inited', `!ldap_rebind_inited'.
ldap_must_init(inited) == inited = 0

\* what a finished call leaves in its caller's record
ldap_return(c, ran, rc, ret) ==
  [ldapCall EXCEPT ![c] = [@ EXCEPT !.pc = "idle", !.ran = ran, !.rc = rc, !.ret = ret]]

\* lua_apr_ldap(), lines 669-706: the arguments are parsed, the object and
\* its pool are made (`early' is a failure of one of these), and the flag
\* is tested.  Without the one-time setup the call goes on to
\* apr_ldap_init(), lines 720-724.
lua_apr_ldap_enter(c) ==
  /\ ldapCall[c].pc = "idle"
  /\ ldapHist.calls < MaxLdapCalls
  /\ ldapHist' = [ldapHist EXCEPT !.calls = @ + 1]
  /\ \E early \in BOOLEAN, secure \in {APR_LDAP_NONE, APR_LDAP_SSL, APR_LDAP_STARTTLS},
        rcOpen \in {APR_SUCCESS, APR_EGENERAL} :
       ldapCall' =
         IF early
           THEN [ldapCall EXCEPT ![c] = [op |-> "ldap", pc |-> "idle", ran |-> "none",
                                         rc |-> NORC, ret |-> "nil, error"]]
         ELSE IF secure # APR_LDAP_NONE /\ ldap_must_init(ldap_ssl_inited)
           THEN [ldapCall EXCEPT ![c] = [op |-> "ldap", pc |-> "pool", ran |-> "none",
                                         rc |-> NORC, ret |-> "none"]]
         ELSE [ldapCall EXCEPT ![c] = [op |-> "ldap", pc |-> "idle", ran |-> "none",
                                       rc |-> NORC,
                                       ret |-> IF rcOpen = APR_SUCCESS
                                                 THEN "object" ELSE "nil, error"]]
  /\ UNCHANGED <<ldap_pool, ldap_ssl_inited, ldap_rebind_inited, attrs, attrsHist, tvars>>

\* lua_apr_ldap_rebind_add(), lines 1101-1119 and, with the flag already
\* set, lines 1132-1134.
lua_apr_ldap_rebind_add_enter(c) ==
  /\ ldapCall[c].pc = "idle"
  /\ ldapHist.calls < MaxLdapCalls
  /\ ldapHist' = [ldapHist EXCEPT !.calls = @ + 1]
  /\ \E rcAdd \in {APR_SUCCESS, APR_EGENERAL} :
       ldapCall' =
         IF ldap_must_init(ldap_rebind_inited)
           THEN [ldapCall EXCEPT ![c] = [op |-> "rebind_add", pc |-> "pool", ran |-> "none",
                                         rc |-> NORC, ret |-> "none"]]
         ELSE [ldapCall EXCEPT ![c] = [op |-> "rebind_add", pc |-> "idle", ran |-> "none",
                                       rc |-> NORC,
                                       ret |-> IF rcAdd = APR_SUCCESS
                                                 THEN "true" ELSE "nil, error"]]
  /\ UNCHANGED <<ldap_pool, ldap_ssl_inited, ldap_rebind_inited, attrs, attrsHist, tvars>>

\* lines 707 and 1120: `if (ldap_pool == NULL)'.
ldap_pool_test(c) ==
  /\ ldapCall[c].pc = "pool"
  /\ ldapCall' = [ldapCall EXCEPT ![c].pc =
                    IF ldap_pool = APR_POOL_NULL THEN "create" ELSE "init"]
  /\ UNCHANGED <<ldap_pool, ldap_ssl_inited, ldap_rebind_inited, ldapHist,
                 attrs, attrsHist, tvars>>

\* lines 709-711 and 1122-1124: apr_pool_create(&ldap_pool, NULL); a
\* failure is returned by push_error_status().
ldap_pool_create(c) ==
  /\ ldapCall[c].pc = "create"
  /\ \E rcPool \in {APR_SUCCESS, APR_ENOMEM} :
       IF rcPool = APR_SUCCESS
         THEN /\ ldap_pool' = LDAP_POOL
              /\ ldapHist' = [ldapHist EXCEPT !.pools = @ + 1]
              /\ ldapCall' = [ldapCall EXCEPT ![c].pc = "init"]
         ELSE /\ ldapCall' = ldap_return(c, "none", NORC, "nil, error")
              /\ UNCHANGED <<ldap_pool, ldapHist>>
  /\ UNCHANGED <<ldap_ssl_inited, ldap_rebind_inited, attrs, attrsHist, tvars>>

\* lines 713-715 and 1126-1128: apr_ldap_ssl_init() or
\* apr_ldap_rebind_init() on the shared pool.
ldap_init_call(c) ==
  /\ ldapCall[c].pc = "init"
  /\ \E rcInit \in {APR_SUCCESS, APR_EGENERAL} :
       LET ran == IF ldapCall[c].op = "ldap" THEN "ssl" ELSE "rebind" IN
       IF rcInit = APR_SUCCESS
         THEN /\ ldapHist' = [ldapHist EXCEPT
                   !.ssl = IF ran = "ssl" THEN @ + 1 ELSE @,
                   !.rebind = IF ran = "rebind" THEN @ + 1 ELSE @]
              /\ ldapCall' = [ldapCall EXCEPT ![c].pc = "set", ![c].ran = ran,
                                               ![c].rc = rcInit]
         ELSE /\ ldapCall' = ldap_return(c, ran, rcInit, "nil, error")
              /\ UNCHANGED ldapHist
  /\ UNCHANGED <<ldap_pool, ldap_ssl_inited, ldap_rebind_inited, attrs, attrsHist, tvars>>

\* lines 716 and 1129, `ldap_ssl_inited = 1' or `ldap_rebind_inited = 1',
\* and the rest of the call: apr_ldap_init() (lines 720-724) or
\* apr_ldap_rebind_add() (lines 1132-1134).
ldap_init_set(c) ==
  /\ ldapCall[c].pc = "set"
  /\ ldap_ssl_inited' = IF ldapCall[c].op = "ldap" THEN 1 ELSE ldap_ssl_inited
  /\ ldap_rebind_inited' = IF ldapCall[c].op = "rebind_add" THEN 1 ELSE ldap_rebind_inited
  /\ \E rcRest \in {APR_SUCCESS, APR_EGENERAL} :
       ldapCall' = ldap_return(c, ldapCall[c].ran, ldapCall[c].rc,
                     IF rcRest # APR_SUCCESS THEN "nil, error"
                     ELSE IF ldapCall[c].op = "ldap" THEN "object" ELSE "true")
  /\ UNCHANGED <<ldap_pool, ldapHist, attrs, attrsHist, tvars>>

LdapInitNext ==
  \E c \in LdapCallers :
    \/ lua_apr_ldap_enter(c)
    \/ lua_apr_ldap_rebind_add_enter(c)
    \/ ldap_pool_test(c)
    \/ ldap_pool_create(c)
    \/ ldap_init_call(c)
    \/ ldap_init_set(c)
LdapInitSpec == Init /\ [][LdapInitNext]_vars

\* ------------------------------------------- ldap.c, the modification list
\* The functions below take and return the structure together with the
\* error raised and the out-of-range writes so far: luaL_error() does not
\* return, so a structure that carries a message is passed on unchanged.
A_machine == [ai |-> attrs.ai, vi |-> attrs.vi, bi |-> attrs.bi, attrs |-> attrs.attrs,
              err |-> attrsHist.err, oob |-> attrsHist.oob]

\* a write of array[i]
A_store(m, array, i) ==
  [m EXCEPT !.oob = IF i \in 0 .. attrs_data_size(array) - 1 THEN @ ELSE @ \cup {array},
            !.attrs = IF array = "attrs" /\ i \in DOMAIN @
                        THEN [@ EXCEPT ![i] = "mod"] ELSE @]
\* a write of attrs[i] = NULL
A_store_null(m, i) ==
  [m EXCEPT !.oob = IF i \in 0 .. attrs_data_size("attrs") - 1 THEN @ ELSE @ \cup {"attrs"},
            !.attrs = IF i \in DOMAIN @ THEN [@ EXCEPT ![i] = "NULL"] ELSE @]

luaL_error(m, msg) == [m EXCEPT !.err = msg]

\* lua_isstring(): strings, and numbers, which convert to strings
lua_isstring(type) == type \in {"string", "number"}

\* value_error(), lines 418-422
value_error(m) == luaL_error(m, "invalid value of attribute")

\* A_init(), lines 426-433
A_init(m) ==
  [A_store_null([m EXCEPT !.ai = 0, !.vi = 0, !.bi = 0], 0) EXCEPT
     !.oob = IF 0 \in 0 .. attrs_data_size("values") - 1 THEN @ ELSE @ \cup {"values"}]

\* As A_setbval, with `>' for `>='.
A_setbval_late(m, type) ==
  IF m.bi > LUA_APR_LDAP_MAX_VALUES THEN luaL_error(m, "too many values")
  ELSE IF ~lua_isstring(type) THEN value_error(m)
  ELSE [A_store(m, "bvals", m.bi) EXCEPT !.bi = @ + 1]

\* A_setbval(), lines 439-453
A_setbval(m, type) ==
  IF m.bi >= LUA_APR_LDAP_MAX_VALUES THEN luaL_error(m, "too many values")
  ELSE IF ~lua_isstring(type) THEN value_error(m)
  ELSE [A_store(m, "bvals", m.bi) EXCEPT !.bi = @ + 1]

\* A_setval(), lines 458-468
A_setval(m, type) ==
  IF m.vi >= LUA_APR_LDAP_ARRAY_VALUES_SIZE THEN luaL_error(m, "too many values")
  ELSE LET b == A_setbval(m, type) IN
       IF b.err # "" THEN b
       ELSE [A_store(b, "values", b.vi) EXCEPT !.vi = @ + 1]

\* A_nullval(), lines 472-482
A_nullval(m) ==
  IF m.vi >= LUA_APR_LDAP_ARRAY_VALUES_SIZE THEN luaL_error(m, "too many values")
  ELSE [A_store(m, "values", m.vi) EXCEPT !.vi = @ + 1]

\* A_tab2val(), lines 498-505: the loop over the elements of a table
RECURSIVE A_tab2val_table(_, _, _)
A_tab2val_table(m, items, i) ==
  IF i > Len(items) \/ m.err # "" THEN m
  ELSE A_tab2val_table(A_setval(m, items[i]), items, i + 1)

\* A_tab2val(), lines 490-512
A_tab2val(m, value) ==
  IF value.type = "true" THEN m
  ELSE LET v == IF lua_isstring(value.type) THEN A_setval(m, value.type)
                ELSE IF value.type = "table" THEN A_tab2val_table(m, value.items, 1)
                ELSE value_error(m) IN
       IF v.err # "" THEN v ELSE A_nullval(v)

\* A_setmod(), lines 516-527
A_setmod(m, value) ==
  IF m.ai >= LUA_APR_LDAP_MAX_ATTRS THEN luaL_error(m, "too many attributes")
  ELSE LET v == A_tab2val(A_store(m, "mods", m.ai), value) IN
       IF v.err # "" THEN v
       ELSE [A_store(v, "attrs", v.ai) EXCEPT !.ai = @ + 1]

\* A_lastattr(), lines 547-555
A_lastattr(m) ==
  IF m.ai >= LUA_APR_LDAP_MAX_ATTRS THEN luaL_error(m, "too many attributes")
  ELSE [A_store_null(m, m.ai) EXCEPT !.ai = @ + 1]

\* The values a script gives to an attribute: true, a string, a number,
\* false, a table of strings, and a table with something else in it.
AttrValues ==
  {[type |-> t, items |-> <<>>] : t \in {"true", "string", "number", "false"}}
    \cup {[type |-> "table", items |-> [i \in 1 .. MaxVals |-> "string"]],
          [type |-> "table", items |-> <<"string", "nil">>]}

A_result(m, pc, n) ==
  /\ attrs' = [ai |-> m.ai, vi |-> m.vi, bi |-> m.bi, attrs |-> m.attrs]
  /\ attrsHist' = [pc |-> IF m.err # "" THEN "raised" ELSE pc,
                   n |-> n, err |-> m.err, oob |-> m.oob]

\* lua_apr_ldap_add(), lines 1296-1306, and lua_apr_ldap_modify(), lines
\* 1364-1374: a new attrs_data, and A_init().
lua_apr_ldap_add_init ==
  /\ attrsHist.pc # "building"
  /\ A_result(A_init([ai |-> NoAttrs.ai, vi |-> NoAttrs.vi, bi |-> NoAttrs.bi,
                      attrs |-> NoAttrs.attrs, err |-> "", oob |-> {}]),
              "building", 0)
  /\ UNCHANGED <<ldap_pool, ldap_ssl_inited, ldap_rebind_inited, ldapHist, ldapCall, tvars>>

\* A_tab2mod(), lines 533-543: one turn of the lua_next() loop, over the
\* table of lua_apr_ldap_add() or over one of those of lua_apr_ldap_modify().
\* A key that is a number is passed over.
A_tab2mod(key) ==
  /\ attrsHist.pc = "building"
  /\ key = "string"
  /\ \E value \in AttrValues :
       A_result(A_setmod(A_machine, value), "building", attrsHist.n + 1)
  /\ UNCHANGED <<ldap_pool, ldap_ssl_inited, ldap_rebind_inited, ldapHist, ldapCall, tvars>>

\* lines 1309 and 1387: A_lastattr(), after which attrs.attrs is given to
\* ldap_add_ext() or ldap_modify_ext().
lua_apr_ldap_add_lastattr ==
  /\ attrsHist.pc = "building"
  /\ A_result(A_lastattr(A_machine), "done", attrsHist.n)
  /\ UNCHANGED <<ldap_pool, ldap_ssl_inited, ldap_rebind_inited, ldapHist, ldapCall, tvars>>

LdapAttrsNext ==
  \/ lua_apr_ldap_add_init
  \/ \E key \in {"string", "number"} : A_tab2mod(key)
  \/ lua_apr_ldap_add_lastattr
LdapAttrsSpec == Init /\ [][LdapAttrsNext]_vars

\* ================================================================ claims
Contains(str, sub) ==
  \E i \in 0..(Len(str) - Len(sub)) : SubSeq(str, i + 1, i + Len(sub)) = sub
Does(h) == UnserializeCall(input[h]).does

\* C1: when the thread function returned r1..rN without raising, a join()
\* whose apr_thread_join() succeeded returns exactly (true, r1, ..., rN).
C1_JoinReturnsTheValues ==
  \A h \in Handles :
    (called[h] = "returned" /\ lastJoin[h].waited)
      => lastJoin[h].res = JoinValues(Does(h).vals)

C3_FinalizerJoinsBeforeRelease ==
  (/\ sup.op = "gc"
   /\ sup.pc \in {"destroy", "release"}
   /\ ~sup.obsJoined
   /\ sup.obsStatus # TS_DETACH)
    => /\ sup.rc # NORC
       /\ sup.rc = APR_SUCCESS => nthread[sup.h] = "exited"
C3_Witness ==
  /\ sup.op = "gc"
  /\ sup.pc = "release"
  /\ ~sup.obsJoined
  /\ sup.obsStatus \in {TS_INIT, TS_RUNNING}
  /\ sup.rc = APR_SUCCESS
  /\ nthread[sup.h] = "exited"

C5_WaitAtMostOnce ==
  \A h \in Handles : joinWaits[h] <= 1
\* C5, amended: once apr_thread_join() has succeeded for a join() on the
\* handle, no join() on it calls apr_thread_join() again, so it succeeds
\* at most once.
C5_NoWaitAfterSuccess ==
  [][\A h \in Handles :
       /\ joinWaitsOK[h] >= 1 => joinWaits'[h] = joinWaits[h]
       /\ joinWaitsOK'[h] <= 1]_vars
C5_Witness ==
  \E h \in Handles :
    /\ sup.op = "idle"
    /\ njoin[h] = 3
    /\ joinWaits[h] = 2
    /\ joinWaitsOK[h] = 1

\* C6: join() never calls apr_thread_join() on a thread that detach() has
\* detached.
C6_JoinNeverWaitsOnDetached ==
  \A h \in Handles : "join" \notin waitDetached[h]

\* C7: the finalizer never calls apr_thread_join() on a thread that
\* detach() has detached.
C7_FinalizerNeverWaitsOnDetached ==
  \A h \in Handles : "gc" \notin waitDetached[h]

\* C8: join() and the finalizer read output only when the status they
\* observed is TS_DONE or TS_ERROR.
C8_OutputReadOnlyWhenFinished ==
  \A h \in Handles : outObs[h] \subseteq {TS_DONE, TS_ERROR}

\* C9: when the native thread has exited, the runner's last write to
\* thread->status was TS_DONE or TS_ERROR.
C9_RunnerEndsDoneOrError ==
  \A h \in Handles : rpc[h] = "exited" => lastWrite[h] \in {TS_DONE, TS_ERROR}
C9_Witness ==
  \E h \in Handles :
    /\ rpc[h] = "exited"
    /\ called[h] = "no"
    /\ lastWrite[h] = TS_ERROR

\* C10: the runner never uses a handle that has been destroyed.
C10_RunnerNeverUsesDestroyedHandle ==
  \A h \in Handles : uaf[h] = {}


C12_FailedDetachChangesNothing ==
  [][\A h \in Handles :
       /\ thread_detach(h)
            => IF detachRet'[h].rc = APR_SUCCESS
                 THEN /\ detachRet'[h].ret.first = "true"
                      /\ status'[h] = TS_DETACH
                      /\ joined'[h] = joined[h]
                 ELSE /\ detachRet'[h].ret =
                           [first |-> "nil", vals |-> <<>>, msg |-> <<detachRet'[h].rc>>]
                      /\ status'[h] = status[h] /\ joined'[h] = joined[h]
                      /\ ndetached'[h] = ndetached[h]
       /\ (status'[h] = TS_DETACH /\ status[h] # TS_DETACH)
            => (thread_detach(h) /\ detachRet'[h].rc = APR_SUCCESS)
    ]_vars
C12_Witness ==
  \E h \in Handles :
    /\ detachRet[h].ret.first = "nil" /\ detachRet[h].rc = APR_EGENERAL
    /\ status[h] = TS_RUNNING /\ ~joined[h] /\ ~ndetached[h]
    /\ lref[h] = "held" /\ sup.op = "idle"


\* C13: when apr_thread_join() fails inside join(), the call returns nil
\* and the error of that status, not (false, message); it does not call
\* apr_thread_join() a second time, joined stays false, and status and
\* output are what they were.  The values of lines 271-278 are pushed
\* only once joined is set.
C13_FailedWaitLeavesHandleJoinable ==
  [][\A h \in Handles :
       /\ (thread_join_wait(h) /\ sup'.op = "idle")
            => /\ lastJoin'[h].res.first = "nil"
               /\ lastJoin'[h].res.msg = <<APR_EGENERAL>>
               /\ ~joined[h] /\ ~joined'[h]
               /\ status'[h] = status[h] /\ output'[h] = output[h]
               /\ joinWaits'[h] = joinWaits[h]
               /\ njoin'[h] = njoin[h]
       /\ (thread_join_wait(h) /\ sup'.op # "idle")
            => (sup'.rc = APR_SUCCESS /\ joined'[h])
       /\ thread_join_push(h) => joined[h]
    ]_vars
C13_Witness ==
  \E h \in Handles :
    /\ lastJoin[h].res = push_error_status(APR_EGENERAL)
    /\ ~joined[h] /\ joinWaits[h] = 1 /\ njoin[h] = 1
    /\ status[h] = TS_RUNNING /\ sup.op = "idle"


\* C14: status() returns the name (init, running, done, error, detach) of
\* the status the handle has when it is called, changes no field of the
\* handle (status, output, joined, reference count) nor the native thread,
\* and never waits: it is one step of the caller, possible whenever the
\* caller holds the handle.
C14_StatusIsAPureRead ==
  /\ [][\A h \in Handles :
          thread_status(h)
            => /\ statusRet'[h] = CASE status[h] = TS_INIT -> "init"
                                     [] status[h] = TS_RUNNING -> "running"
                                     [] status[h] = TS_DONE -> "done"
                                     [] status[h] = TS_ERROR -> "error"
                                     [] status[h] = TS_DETACH -> "detach"
               /\ status'[h] = status[h] /\ output'[h] = output[h]
               /\ joined'[h] = joined[h] /\ refcount'[h] = refcount[h]
               /\ nthread'[h] = nthread[h] /\ joinWaits'[h] = joinWaits[h]
               /\ sup' = sup
       ]_vars
  /\ [](\A h \in Driven :
          (sup.op = "idle" /\ lref[h] = "held") => ENABLED thread_status(h))
C14_Witness ==
  \E h \in Handles :
    /\ statusRet[h] = "running" /\ status[h] = TS_DONE
    /\ nthread[h] = "running" /\ ~joined[h]


\* C15: while the thread function has not returned (the runner has not yet
\* come back from lua_pcall()), and no detach() succeeded, a status() call
\* returns "init" or "running", never "done" or "error"; once the runner
\* is inside lua_pcall() it returns "running".
C15_NoFinalStatusWhileExecuting ==
  [][\A h \in Handles :
       (thread_status(h) /\ ~ndetached[h]
          /\ rpc[h] \in {"start", "newstate", "check", "pcall"})
         => /\ statusRet'[h] \in {"init", "running"}
            /\ rpc[h] = "pcall" => statusRet'[h] = "running"
    ]_vars
C15_Witness ==
  \E h \in Handles :
    /\ statusRet[h] = "running" /\ rpc[h] = "pcall" /\ called[h] = "no"
    /\ ~ndetached[h] /\ status[h] = TS_RUNNING


\* C16: with one worker per handle, each returning the index of its
\* handle, joined in any order under any interleaving of the runners:
\* every join() that gets past its wait returns the index of its own
\* worker (or the failure of that worker's own Lua state), no join()
\* returns the index of another worker, and no step of a runner changes
\* the status or the output of another worker's handle.
C16_WorkersAreIsolated ==
  /\ [](\A h \in Handles : \A r \in joinSeen[h] :
          /\ r.first # "nil"
               => r = IF called[h] = "returned"
                        THEN JoinValues(<<ToString(h)>>)
                        ELSE JoinFailure(<<"Failed to create Lua state">>)
          /\ \A g \in Handles \ {h} : r # JoinValues(<<ToString(g)>>))
  /\ [][\A h \in Handles : \A g \in Handles \ {h} :
          thread_runner(h) => (status'[g] = status[g] /\ output'[g] = output[g])
       ]_vars
C16_Witness ==
  /\ \A h \in Handles : lastJoin[h].res = JoinValues(<<ToString(h)>>)
  /\ \A h \in Handles : njoin[h] = 1 /\ joined[h]


\* C17: when every native thread is scheduled and the thread function
\* terminates, a native thread that apr.thread() started eventually has
\* written TS_DONE or TS_ERROR and exited, whatever the supervisor does
\* with the handle (join, detach, drop it to the finalizer, nothing); a
\* started runner always has a next step until it has exited, and no
\* step of the supervisor moves or stops it.
C17_WorkerAlwaysFinishes ==
  /\ \A h \in Driven :
        (nthread[h] = "running")
          ~> (nthread[h] = "exited" /\ lastWrite[h] \in {TS_DONE, TS_ERROR})
  /\ [](\A h \in Driven : nthread[h] = "running" => ENABLED thread_runner(h))
  /\ [][\A h \in Driven :
          (nthread[h] = "running" /\ ~thread_runner(h))
            => (nthread'[h] = "running" /\ rpc'[h] = rpc[h])
       ]_vars
C17_Witness ==
  \E h \in Handles :
    /\ nthread[h] = "exited" /\ lastWrite[h] = TS_DONE
    /\ ndetached[h] /\ lref[h] = "finalized" /\ njoin[h] = 0


\* C18: once a detach() has succeeded on a handle, the status of the
\* handle is TS_DETACH in every later state (so status() keeps returning
\* "detach"): no later step of the runner changes it.
C18_DetachIsIrreversible ==
  \A h \in Handles : ndetached[h] => status[h] = TS_DETACH

\* C19: as the comment above thread_join() says, a join() that gets past
\* its wait on a handle that was not detached returns nil followed by an
\* error message when the thread terminated with an error, and true
\* followed by the return values of the thread function otherwise.
C19_JoinFollowsItsDocumentation ==
  \A h \in Handles : \A r \in joinSeen[h] :
    (~ndetached[h] /\ r # push_error_status(APR_EGENERAL))
      => IF lastWrite[h] = TS_ERROR
           THEN r.first = "nil" /\ r.msg = output[h]
           ELSE r.first = "true" /\ r.vals = Does(h).vals

\* C20: at the moment apr.thread() returns the thread object (line 224)
\* the reference count of the object is 2: one reference of the caller
\* and one of the worker.
C20_TwoReferencesAtReturn ==
  \A h \in Handles : (sup.op = "spawn" /\ sup.h = h) => refcount[h] = 2


\* C21: the runner writes TS_RUNNING only from the position behind lines
\* 108-142, that is after luaL_newstate() succeeded, package.config, path
\* and cpath were set, the error handler was pushed and the function was
\* unserialized (line 128 left TS_INIT in the local `status') and, for
\* source text, compiled without error.
C21_RunningOnlyAfterSetup ==
  [][\A h \in Handles :
       (status'[h] = TS_RUNNING /\ status[h] # TS_RUNNING)
         => /\ runner_running(h)
            /\ rpc[h] = "check" /\ rstatus[h] = TS_INIT
            /\ UnserializeCall(input[h]).kind \in {"function", "source"}
    ]_vars
C21_Witness ==
  \E h \in Handles :
    /\ status[h] = TS_RUNNING /\ lastWrite[h] = TS_RUNNING /\ rpc[h] = "pcall"
    /\ UnserializeCall(input[h]).kind = "source"


\* C22: a runner that fails before it calls the thread function, because
\* luaL_newstate() failed or the source text did not compile, never writes
\* TS_RUNNING and never calls the function; it ends with TS_ERROR written
\* to the handle and the failure message in output, drops its reference
\* in thread_destroy() and exits the native thread with APR_SUCCESS.
C22_FailureBeforeTheCall ==
  /\ [](\A h \in Handles :
          /\ (rstatus[h] = TS_ERROR /\ called[h] = "no")
               => /\ lastWrite[h] \in {UNSET, TS_ERROR}
                  /\ output[h] \in {<<"Failed to create Lua state">>, <<"syntax error">>}
          /\ (called[h] = "no" /\ rpc[h] \in {"destroy", "release", "exit", "exited"})
               => (rstatus[h] = TS_ERROR /\ lastWrite[h] = TS_ERROR)
          /\ (called[h] = "no" /\ rpc[h] = "exited")
               => (nthread[h] = "exited" /\ exitval[h] = APR_SUCCESS))
  /\ [][\A h \in Handles :
          /\ (rstatus[h] = TS_ERROR /\ called[h] = "no") => called'[h] = "no"
          /\ (rpc[h] = "release" /\ rpc'[h] = "exit")
               => refcount'[h] = refcount[h] - 1
       ]_vars
C22_Witness ==
  \E h \in Handles :
    /\ rpc[h] = "exited" /\ called[h] = "no" /\ status[h] = TS_ERROR
    /\ output[h] = <<"syntax error">> /\ exitval[h] = APR_SUCCESS
    /\ refcount[h] = 1 /\ lref[h] = "held"


\* C23: while the runner can still write status or output (it has not yet
\* passed line 157), no step of the supervisor writes the status of the
\* handle and none reads its output.
C23_SupervisorKeepsOffWhileWorkerWrites ==
  [][\A h \in Handles :
       rpc[h] \in {"start", "newstate", "check", "pcall", "final"}
         => /\ status'[h] # status[h] => thread_runner(h)
            /\ outObs'[h] = outObs[h]
    ]_vars


\* C24: the step of apr.thread() that creates the native thread leaves
\* TS_INIT, the copied input and the three package strings in the handle;
\* the rest of apr.thread() (line 224) writes nothing to the handle, and
\* from the creation of the native thread on neither the supervisor nor
\* the runner changes input, config, path or cpath.
C24_SpawnWritesBeforeCreate ==
  [][\A h \in Handles :
       /\ (nthread[h] = "none" /\ nthread'[h] # "none")
            => /\ status'[h] = TS_INIT
               /\ input'[h] \in {SerializeCall(p) : p \in Payloads \cup {IndexPayload(h)}}
               /\ package'[h] = ParentPackage
       /\ lua_apr_thread_return(h)
            => /\ status'[h] = status[h] /\ output'[h] = output[h]
               /\ input'[h] = input[h] /\ package'[h] = package[h]
               /\ joined'[h] = joined[h]
       /\ nthread[h] # "none"
            => (input'[h] = input[h] /\ package'[h] = package[h])
    ]_vars
C24_Witness ==
  \E h \in Handles :
    /\ rpc[h] = "final" /\ called[h] = "returned" /\ spawnRet[h].ret = ThreadObject
    /\ input[h] = SerializeCall([kind |-> "source", does |-> Returning(<<"a">>)])
    /\ package[h] = ParentPackage


\* C25: as long as no detach() has succeeded on a handle, each change of
\* its status is one of TS_INIT -> TS_RUNNING, TS_RUNNING -> TS_DONE,
\* TS_RUNNING -> TS_ERROR and TS_INIT -> TS_ERROR, so a status of TS_DONE
\* or TS_ERROR stays; and joined, once set, stays set.
C25_StatusMovesForward ==
  [][\A h \in Handles :
       /\ (~ndetached'[h] /\ status'[h] # status[h])
            => <<status[h], status'[h]>> \in
                 {<<TS_INIT, TS_RUNNING>>, <<TS_RUNNING, TS_DONE>>,
                  <<TS_RUNNING, TS_ERROR>>, <<TS_INIT, TS_ERROR>>}
       /\ joined[h] => joined'[h]
    ]_vars
C25_Witness ==
  \E h \in Handles :
    /\ ~ndetached[h] /\ status[h] = TS_DONE /\ joined[h]
    /\ njoin[h] = 2 /\ statusRet[h] = "done" /\ sup.op = "idle"


\* C26: whatever the interleaving of the thread_destroy() of the runner
\* and the thread_destroy() of the finalizer, the output buffer is never
\* freed twice, and once both have released the handle a buffer that was
\* allocated has been freed exactly once.
C26_OutputFreedExactlyOnce ==
  \A h \in Handles :
    /\ outFreed[h] <= 1
    /\ (rpc[h] \in {"exit", "exited"} /\ lref[h] = "finalized" /\ output[h] # NULL)
         => outFreed[h] = 1


\* C27: a handle whose apr.thread() failed stays released exactly once:
\* the finalizer of that object never calls apr_thread_join() for it and
\* never releases it a second time.
C27_FailedSpawnReleasedOnce ==
  \A h \in Handles :
    spawnRet[h].call # "none"
      => /\ ~(sup.op = "gc" /\ sup.h = h /\ sup.pc = "wait")
         /\ refcount[h] = new_object_refcount - 1


\* C28: over any run of apr.ldap() and rebind_add() calls the shared pool
\* is created at most once, apr_ldap_ssl_init() succeeds at most once and
\* so does apr_ldap_rebind_init().
C28_LdapSetupIsOneTime ==
  ldapHist.pools <= 1 /\ ldapHist.ssl <= 1 /\ ldapHist.rebind <= 1

\* C29: an operation given at most LUA_APR_LDAP_MAX_ATTRS string-keyed
\* attributes does not raise "too many attributes".
C29_MaxAttrsAreUsable ==
  attrsHist.err = "too many attributes" => attrsHist.n > LUA_APR_LDAP_MAX_ATTRS

\* C30: from A_init() on the counters stay within 0 .. the size of their
\* array, no array is written outside its elements, and when A_lastattr()
\* has returned attrs holds ai - 1 pointers followed by NULL.
C30_CountersStayInBounds ==
  attrsHist.pc # "idle" =>
    /\ attrs.ai \in 0 .. LUA_APR_LDAP_MAX_ATTRS
    /\ attrs.vi \in 0 .. LUA_APR_LDAP_ARRAY_VALUES_SIZE
    /\ attrs.bi \in 0 .. LUA_APR_LDAP_MAX_VALUES
    /\ attrsHist.oob = {}
    /\ attrsHist.pc = "done" =>
         /\ attrs.attrs[attrs.ai - 1] = "NULL"
         /\ \A i \in 0 .. attrs.ai - 2 : attrs.attrs[i] = "mod"
C30_Witness ==
  /\ attrsHist.pc = "done"
  /\ attrs.ai = LUA_APR_LDAP_MAX_ATTRS
  /\ attrs.bi = LUA_APR_LDAP_MAX_VALUES

====
